---- MODULE Spec2Model ----
(***************************************************************************)
(* A model of ScrollySystem (src/unnamed/part_002): the trigger-resolution *)
(* engine of the scrolltering library.  One instance is modelled together  *)
(* with the host facilities it talks to: the document's ready state, the   *)
(* IntersectionObserver that delivers batches of visibility entries, the   *)
(* layout (getBoundingClientRect().top) and the host's timer table.        *)
(* The layout is host state that scrolling and reflow change between any   *)
(* two tasks and that only a resolution pass reads: a pass draws the       *)
(* layout it reads from all layouts.                                       *)
(*                                                                         *)
(* Host assumptions (outside the source): an IntersectionObserver invokes  *)
(* its callback with a non-empty batch of entries, and isIntersecting is   *)
(* whatever the host computed; the callback stores the target of every     *)
(* entry it is given, and an entry queued before unobserve() or            *)
(* disconnect() may be delivered after it, so the targets of a batch need  *)
(* not be registered when it arrives; a                                    *)
(* disconnected observer accepts observe() again; JavaScript runs one task *)
(* at a time, so every handler below is one atomic step, with the user     *)
(* code it calls (the onChange callback) inside it.  The onChange callbacks *)
(* modelled are: none, one that only reads getCurrentTriggerId(), and one  *)
(* that calls destroy() on the instance; callbacks and listeners return    *)
(* normally.  User code may call updateCurrentTrigger() itself, as the     *)
(* README recommends after a layout change.                                *)
(*                                                                         *)
(* Spec is the instance with time abstracted, SpecRoundTrip the same with  *)
(* observe(e), unobserve(e) round trips followed up, SpecTimed the         *)
(* instance with the debounce delay in milliseconds and user calls         *)
(* counted up to MaxCalls, SpecDiagnose the instance with                  *)
(* diagnose() and its five-second cache on hosts with and without          *)
(* IntersectionObserver, SpecReport the functions of the diagnostics       *)
(* engine on their own, SpecMalformed the instance constructed with a      *)
(* negative debounceDelay, SpecFair the timed instance with the host's     *)
(* scheduling of timers as fairness, SpecUnobserve the instance with what  *)
(* follows an unobserve() of the current trigger's element.                *)
(***************************************************************************)
EXTENDS Integers, Sequences, FiniteSets, TLC

\* ---------------------------------------------------------------- bounds
MaxTop == 1          \* top coordinates range over 0..MaxTop
MaxDelay == 2        \* config.debounceDelay ranges over 1..MaxDelay (timed spec)
MaxBatches == 3      \* batches counted by the timed specification
MaxEntries == 2      \* entries in one batch of the IntersectionObserver
MaxCalls == 1        \* calls of observe, unobserve and updateCurrentTrigger by
                     \* user code in a behaviour of the timed specification
MaxIssues == 5       \* length of the issue lists given to the report functions
MaxThresholds == 6   \* length of a config.threshold array
MaxReports == 2      \* diagnostic reports computed in one behaviour

\* ---------------------------------------------------------------- the page
Null == "null"                       \* JavaScript null
Elems == {"A", "B", "C"}             \* DOM elements of the page
TriggerIds == {"intro", "section1"}
AttrValues == TriggerIds \cup {Null}
Tops == 0..MaxTop

\* document.querySelectorAll(config.selector): "C" is an element added later
\* through observe().
QuerySelectorAll == {"A", "B"}

\* The pages: element -> value of getAttribute(config.triggerAttribute).
Pages == {p \in [Elems -> AttrValues] :
            /\ p["A"] = "intro"
            /\ p["B"] = "section1"
            /\ p["C"] \in {"intro", Null}}

InstanceId == "scrolly-1"
DefaultDebounceDelay == 10

VARIABLES
  readyState,          \* document.readyState: "loading" or "interactive"
  listener,            \* init() registered a DOMContentLoaded listener
  attr,                \* the page: element -> trigger attribute (or Null)
  observer,            \* this.observer: Null or "IO"
  targets,             \* the observer's observation targets
  visibleElements,     \* this.visibleElements, a Map in insertion order
  currentTriggerId,    \* this.currentTriggerId
  lastValidTriggerId,  \* this.lastValidTriggerId
  debounceTimer,       \* this._debounceTimer: <<>> (null) or <<handle>>
  timers,              \* host timer table: pending [id, left]
  debounceDelay,       \* this.config.debounceDelay
  onChange,            \* what config.onChange is: see OnChangeKinds
  host,                \* what the host page reports (window, document)
  selected,            \* document.querySelectorAll(config.selector), in order
  threshold,           \* this.config.threshold
  thrown,              \* Null, or the step whose exception escaped
  diagnosticCache,     \* this._diagnosticCache: verbose -> report
  cacheTimers,         \* pending eviction timers of diagnose(), oldest first
  now,                 \* Date.now(), in milliseconds since construction
  \* ---- history (not fields of the program)
  destroyed,           \* destroy() has been called
  lastOp,              \* the operation that produced this state
  layoutRead,          \* <<>> or <<the layout that operation's pass read>>
  emitted,             \* the notifications that operation emitted
  lastDetail,          \* <<>> or <<current of the latest notification>>
  everVisible,         \* the Visible Set has been non-empty at least once
  roundTrip,           \* tracks observe(e) immediately followed by unobserve(e)
  \* ---- history of diagnose()
  returned,            \* <<>> or <<verbose, report>> of the latest diagnose call
  nComputed,           \* reports computed so far
  \* ---- the diagnostic functions called on their own
  args,                \* <<>> or the arguments of the call
  callResult,          \* <<>> or <<function, value>> of the call
  \* ---- history of the timed specification
  nBatches,            \* callback batches taken in
  nPasses,             \* debounced resolution passes run
  sinceBatch,          \* time since the latest batch (capped)
  spacing,             \* "none", "close", "far" or "mixed"
  passAfter,           \* sinceBatch when the latest debounced pass ran
  nCalls,              \* calls by user code counted by the timed specification
  evicted              \* unobserve took the current trigger's element and no
                       \* batch has arrived since (SpecUnobserve)

instVars == <<observer, targets, visibleElements, currentTriggerId,
              lastValidTriggerId, debounceTimer, timers>>
envVars == <<readyState, listener, attr, debounceDelay, onChange, host,
             selected, threshold>>
histVars == <<destroyed, lastOp, layoutRead, emitted, lastDetail,
              everVisible, roundTrip>>
timedVars == <<nBatches, nPasses, sinceBatch, spacing, passAfter, nCalls,
              evicted>>
pureVars == <<args, callResult>>
diagRest == <<cacheTimers, now, returned, nComputed, pureVars>>
diagVars == <<diagnosticCache, diagRest>>
vars == <<instVars, envVars, histVars, timedVars, thrown, diagVars>>

\* ---------------------------------------------------------------- Map
Range(seq) == {seq[i] : i \in DOMAIN seq}

MapKeys(m) == {m[i].el : i \in DOMAIN m}

MapDelete(m, el) == SelectSeq(m, LAMBDA x : x.el # el)

\* Map.prototype.set: an existing key keeps its position.
MapSet(m, el, id) ==
  IF el \in MapKeys(m)
    THEN [i \in DOMAIN m |-> IF m[i].el = el THEN [el |-> el, id |-> id] ELSE m[i]]
    ELSE Append(m, [el |-> el, id |-> id])

\* ---------------------------------------------------------------- notifier
NoEvents == <<>>

Detail(currentId, previousId) ==
  [current |-> currentId, previous |-> previousId, instanceId |-> InstanceId]

\* config.onChange: not a function ("none"), a function that only reads the
\* instance ("plain"), a function that calls destroy() on it ("destroy").
OnChangeKinds == {"none", "plain", "destroy"}

\* An emitTriggerChange that notifies nobody.
EmitTriggerChangeNobody(currentId, previousId, cb) == NoEvents

\* emitTriggerChange: the callback, if configured, then the broadcast.
EmitTriggerChange(currentId, previousId, cb) ==
  (IF cb # "none" THEN <<[channel |-> "callback", detail |-> Detail(currentId, previousId)]>>
   ELSE <<>>)
  \o <<[channel |-> "broadcast", detail |-> Detail(currentId, previousId)]>>

\* What the listeners of the events see: each runs synchronously inside
\* emitTriggerChange, so getCurrentTriggerId() in a listener returns the value
\* this.currentTriggerId has at that point: the value just assigned (field)
\* in the onChange callback, and in the listeners of the broadcast too unless
\* the callback has called destroy() in between, which resets it to null.
Delivered(events, field, cb) ==
  [k \in DOMAIN events |->
     [channel |-> events[k].channel, detail |-> events[k].detail,
      read |-> IF events[k].channel = "broadcast" /\ cb = "destroy"
                 THEN Null ELSE field]]

\* setCurrentTrigger without the comparison: every pass notifies.
SetCurrentTriggerAlways(cur, triggerId, cb) ==
  [current |-> IF cb = "destroy" THEN Null ELSE triggerId,
   emitted |-> Delivered(EmitTriggerChange(triggerId, cur, cb), triggerId, cb),
   reentered |-> cb = "destroy"]

\* setCurrentTrigger: [current, emitted, reentered].  this.currentTriggerId
\* is assigned before emitTriggerChange is called; reentered tells that the
\* callback called destroy(), which leaves this.currentTriggerId null.
SetCurrentTrigger(cur, triggerId, cb) ==
  IF cur # triggerId
    THEN [current |-> IF cb = "destroy" THEN Null ELSE triggerId,
          emitted |-> Delivered(EmitTriggerChange(triggerId, cur, cb),
                                triggerId, cb),
          reentered |-> cb = "destroy"]
    ELSE [current |-> cur, emitted |-> NoEvents, reentered |-> FALSE]

\* ---------------------------------------------------------------- resolver
\* The reduce comparing with <=: of entries with equal top the last one wins.
RECURSIVE ReduceLastOfTies(_, _, _, _)
ReduceLastOfTies(entries, t, i, prev) ==
  IF i > Len(entries) THEN prev
  ELSE ReduceLastOfTies(entries, t, i + 1,
                        IF t[entries[i].el] <= t[prev.el] THEN entries[i] ELSE prev)

\* entries.reduce((prev, curr) => currRect.top < prevRect.top ? curr : prev)
RECURSIVE Reduce(_, _, _, _)
Reduce(entries, t, i, prev) ==
  IF i > Len(entries) THEN prev
  ELSE Reduce(entries, t, i + 1,
              IF t[entries[i].el] < t[prev.el] THEN entries[i] ELSE prev)

\* The reduce with the comparison reversed: the lowest element wins.
RECURSIVE ReduceLargest(_, _, _, _)
ReduceLargest(entries, t, i, prev) ==
  IF i > Len(entries) THEN prev
  ELSE ReduceLargest(entries, t, i + 1,
                     IF t[entries[i].el] > t[prev.el] THEN entries[i] ELSE prev)

TopEntryLargest(entries, t) == ReduceLargest(entries, t, 2, entries[1])

TopEntry(entries, t) == Reduce(entries, t, 2, entries[1])

\* updateCurrentTrigger without the sticky fallback: an empty Visible Set
\* resolves to "no trigger".
UpdateCurrentTriggerNoSticky(vis, t, cur, lastValid, cb) ==
  IF Len(vis) > 0
    THEN LET triggerId == TopEntry(vis, t).id
             r == SetCurrentTrigger(cur, triggerId, cb)
         IN [current |-> r.current,
             lastValid |-> IF r.reentered THEN Null ELSE triggerId,
             emitted |-> r.emitted, reentered |-> r.reentered]
    ELSE LET r == SetCurrentTrigger(cur, Null, cb)
         IN [current |-> r.current,
             lastValid |-> IF r.reentered THEN Null ELSE lastValid,
             emitted |-> r.emitted, reentered |-> r.reentered]

\* updateCurrentTrigger whose fallback consumes lastValidTriggerId.
UpdateCurrentTriggerForget(vis, t, cur, lastValid, cb) ==
  IF Len(vis) > 0
    THEN LET triggerId == TopEntry(vis, t).id
             r == SetCurrentTrigger(cur, triggerId, cb)
         IN [current |-> r.current,
             lastValid |-> IF r.reentered THEN Null ELSE triggerId,
             emitted |-> r.emitted, reentered |-> r.reentered]
    ELSE IF lastValid # Null
      THEN LET r == SetCurrentTrigger(cur, lastValid, cb)
           IN [current |-> r.current, lastValid |-> Null,
               emitted |-> r.emitted, reentered |-> r.reentered]
      ELSE [current |-> cur, lastValid |-> lastValid, emitted |-> NoEvents,
            reentered |-> FALSE]

\* updateCurrentTrigger: [current, lastValid, emitted, reentered].
\* lastValidTriggerId is assigned before setCurrentTrigger is called, so a
\* destroy() called by the onChange callback resets it too.
UpdateCurrentTrigger(vis, t, cur, lastValid, cb) ==
  IF Len(vis) > 0
    THEN LET triggerId == TopEntry(vis, t).id
             r == SetCurrentTrigger(cur, triggerId, cb)
         IN [current |-> r.current,
             lastValid |-> IF r.reentered THEN Null ELSE triggerId,
             emitted |-> r.emitted, reentered |-> r.reentered]
    ELSE IF lastValid # Null
      THEN LET r == SetCurrentTrigger(cur, lastValid, cb)
           IN [current |-> r.current,
               lastValid |-> IF r.reentered THEN Null ELSE lastValid,
               emitted |-> r.emitted, reentered |-> r.reentered]
      ELSE [current |-> cur, lastValid |-> lastValid, emitted |-> NoEvents,
            reentered |-> FALSE]

\* ---------------------------------------------------------------- timers
TimerIds(tms) == {x.id : x \in tms}

\* A clearTimeout that cancels nothing.
ClearTimeoutNothing(tms, handle) == tms

\* clearTimeout: a null or stale handle cancels nothing.
ClearTimeout(tms, handle) ==
  IF handle = <<>> THEN tms ELSE {x \in tms : x.id # handle[1]}

\* setTimeout's return value.  The host never hands out a handle twice; as
\* the instance keeps one handle and overwrites it with every timer it
\* creates, the smallest handle that is not pending stands for a new one.
FreshTimerId(tms) ==
  CHOOSE n \in 1..(Cardinality(tms) + 1) :
    /\ n \notin TimerIds(tms)
    /\ \A k \in 1..(n - 1) : k \in TimerIds(tms)

\* The delay the host gives a timer: setTimeout takes a negative delay as 0.
TimerDelay(wait) == IF wait < 0 THEN 0 ELSE wait

\* debounce without clearTimeout: every call leaves its own timer pending.
DebounceNoClear(tms, handle, wait) ==
  LET id == FreshTimerId(tms)
  IN [timers |-> tms \cup {[id |-> id, left |-> TimerDelay(wait)]},
      handle |-> <<id>>]

\* debounce that clears the pending timer and sets none.
DebounceNoSchedule(tms, handle, wait) ==
  [timers |-> ClearTimeout(tms, handle), handle |-> <<>>]

\* The closure returned by debounce(func, wait), called once:
\* clearTimeout(this._debounceTimer); this._debounceTimer = setTimeout(..., wait)
Debounce(tms, handle, wait) ==
  LET cleared == ClearTimeout(tms, handle)
      id == FreshTimerId(cleared)
  IN [timers |-> cleared \cup {[id |-> id, left |-> TimerDelay(wait)]},
      handle |-> <<id>>]

\* ---------------------------------------------------------------- intake
Entries == [target : Elems, isIntersecting : BOOLEAN]

\* A batch: a non-empty sequence of entries, one per target at most (a later
\* entry for the same target arrives as a later batch).
Batches ==
  {b \in UNION {[1..n -> Entries] : n \in 1..MaxEntries} :
     \A i, j \in DOMAIN b : b[i].target = b[j].target => i = j}

\* entries.forEach(entry => ...) of the IntersectionObserver callback
RECURSIVE Intake(_, _, _, _)
Intake(vis, batch, i, at) ==
  IF i > Len(batch) THEN vis
  ELSE Intake(IF batch[i].isIntersecting
                THEN MapSet(vis, batch[i].target, at[batch[i].target])
                ELSE MapDelete(vis, batch[i].target),
              batch, i + 1, at)

\* ---------------------------------------------------------------- public API
\* observe(element): the registrations afterwards
ObserveTargets(obs, tg, element) ==
  IF obs # Null /\ element # Null THEN tg \cup {element} ELSE tg

\* unobserve(element): the registrations afterwards
UnobserveTargets(obs, tg, element) ==
  IF obs # Null /\ element # Null THEN tg \ {element} ELSE tg

\* unobserve that forgets visibleElements.delete(element).
UnobserveVisibleKeep(obs, vis, element) == vis

\* unobserve that clears the whole Visible Set.
UnobserveVisibleClear(obs, vis, element) ==
  IF obs # Null /\ element # Null THEN <<>> ELSE vis

\* unobserve(element): the Visible Set afterwards
UnobserveVisible(obs, vis, element) ==
  IF obs # Null /\ element # Null THEN MapDelete(vis, element) ELSE vis

\* ---------------------------------------------------------------- diagnostics
\* The document, in document order, and what the host reports about it.  The
\* page is tall enough to scroll and its sections fill the viewport.
DocumentOrder == <<"A", "B", "C">>

Host ==
  [innerHeight |-> 800, scrollHeight |-> 2400, bodyOverflow |-> "visible",
   htmlOverflow |-> "visible", viewportMeta |-> TRUE,
   intersectionObserver |-> TRUE]

Style ==
  [e \in Elems |-> [offsetHeight |-> 800, display |-> "block",
                    visibility |-> "visible", position |-> "static"]]

\* config.threshold: a number (isArray FALSE, one value) or an array; the
\* values are in tenths.  Default 0.
ConfigThreshold == [isArray |-> FALSE, values |-> <<0>>]

\* document.querySelectorAll(config.selector) as a list in document order
Elements == SelectSeq(DocumentOrder, LAMBDA e : e \in QuerySelectorAll)

Issue(type, severity, element) ==
  [type |-> type, severity |-> severity, element |-> element]

\* !triggerId: the attribute is missing or empty.
Falsy(triggerId) == triggerId = Null \/ triggerId = ""

\* The issues validateElements pushes for one element, given the trigger
\* identifiers seen on the elements before it.
ElementIssues(element, at, seen) ==
  (IF Falsy(at[element])
     THEN <<Issue("missing_trigger_id", "error", element)>>
     ELSE IF at[element] \in seen
       THEN <<Issue("duplicate_trigger_id", "error", element)>>
       ELSE <<>>)
  \o (IF 2 * Style[element].offsetHeight < Host.innerHeight
        THEN <<Issue("insufficient_height", "warning", element)>> ELSE <<>>)
  \o (IF Style[element].display = "none"
        THEN <<Issue("element_hidden", "error", element)>>
        ELSE IF Style[element].visibility = "hidden"
          THEN <<Issue("element_visibility_hidden", "warning", element)>>
          ELSE <<>>)
  \o (IF Style[element].position = "fixed"
        THEN <<Issue("fixed_position", "warning", element)>> ELSE <<>>)

\* elements.forEach of validateElements without triggerIds.add(triggerId)
RECURSIVE ValidateEachNoAdd(_, _, _, _)
ValidateEachNoAdd(elements, at, i, seen) ==
  IF i > Len(elements) THEN <<>>
  ELSE ElementIssues(elements[i], at, seen)
       \o ValidateEachNoAdd(elements, at, i + 1, seen)

RECURSIVE ValidateEach(_, _, _, _)
ValidateEach(elements, at, i, seen) ==
  IF i > Len(elements) THEN <<>>
  ELSE ElementIssues(elements[i], at, seen)
       \o ValidateEach(elements, at, i + 1,
                       IF ~Falsy(at[elements[i]]) /\ at[elements[i]] \notin seen
                         THEN seen \cup {at[elements[i]]}
                         ELSE seen)

\* validateElements without the test for an empty selection
ValidateElementsNoEmptyTest(elements, at) == ValidateEach(elements, at, 1, {})

\* validateElements
ValidateElements(elements, at) ==
  IF Len(elements) = 0
    THEN <<Issue("no_elements", "error", Null)>>
    ELSE ValidateEach(elements, at, 1, {})

\* checkPerformance comparing with threshold == 1.0, which also holds of [1.0]
CheckPerformanceLooseEquality(elements, thr, delay) ==
  (IF Len(elements) > 50
     THEN <<Issue("too_many_elements", "warning", Null)>> ELSE <<>>)
  \o (IF thr.isArray /\ Len(thr.values) > 5
        THEN <<Issue("complex_threshold", "warning", Null)>>
        ELSE IF thr.values = <<10>>
          THEN <<Issue("high_threshold", "warning", Null)>>
          ELSE <<>>)
  \o (IF delay > 100
        THEN <<Issue("high_debounce", "info", Null)>>
        ELSE IF delay < 5
          THEN <<Issue("low_debounce", "info", Null)>>
          ELSE <<>>)

\* checkPerformance counting the distinct values of the threshold array
CheckPerformanceDistinct(elements, thr, delay) ==
  (IF Len(elements) > 50
     THEN <<Issue("too_many_elements", "warning", Null)>> ELSE <<>>)
  \o (IF thr.isArray /\ Cardinality(Range(thr.values)) > 5
        THEN <<Issue("complex_threshold", "warning", Null)>>
        ELSE IF ~thr.isArray /\ thr.values[1] = 10
          THEN <<Issue("high_threshold", "warning", Null)>>
          ELSE <<>>)
  \o (IF delay > 100
        THEN <<Issue("high_debounce", "info", Null)>>
        ELSE IF delay < 5
          THEN <<Issue("low_debounce", "info", Null)>>
          ELSE <<>>)

\* checkPerformance
CheckPerformance(elements, thr, delay) ==
  (IF Len(elements) > 50
     THEN <<Issue("too_many_elements", "warning", Null)>> ELSE <<>>)
  \o (IF thr.isArray /\ Len(thr.values) > 5
        THEN <<Issue("complex_threshold", "warning", Null)>>
        ELSE IF ~thr.isArray /\ thr.values[1] = 10
          THEN <<Issue("high_threshold", "warning", Null)>>
          ELSE <<>>)
  \o (IF delay > 100
        THEN <<Issue("high_debounce", "info", Null)>>
        ELSE IF delay < 5
          THEN <<Issue("low_debounce", "info", Null)>>
          ELSE <<>>)

\* _checkEnvironment
CheckEnvironment(h) ==
  (IF h.scrollHeight <= h.innerHeight
     THEN <<Issue("no_scroll", "error", Null)>> ELSE <<>>)
  \o (IF h.bodyOverflow = "hidden" \/ h.htmlOverflow = "hidden"
        THEN <<Issue("overflow_hidden", "error", Null)>> ELSE <<>>)
  \o (IF ~h.viewportMeta
        THEN <<Issue("no_viewport_meta", "warning", Null)>> ELSE <<>>)
  \o (IF ~h.intersectionObserver
        THEN <<Issue("no_intersection_observer", "error", Null)>> ELSE <<>>)

\* The issues diagnose() collects, in its order: elements, performance,
\* environment.
DiagnoseIssues(elements, at, thr, delay, h) ==
  ValidateElements(elements, at)
  \o CheckPerformance(elements, thr, delay)
  \o CheckEnvironment(h)

\* The issues of diagnose() on the default page and configuration.
Issues(at, delay) ==
  DiagnoseIssues(Elements, at, ConfigThreshold, delay, Host)

\* _determineStatus testing for warnings before errors
DetermineStatusWarningFirst(issues) ==
  IF \E i \in DOMAIN issues : issues[i].severity = "warning" THEN "warning"
  ELSE IF \E i \in DOMAIN issues : issues[i].severity = "error" THEN "error"
  ELSE "ok"

\* _determineStatus
DetermineStatus(issues) ==
  IF \E i \in DOMAIN issues : issues[i].severity = "error" THEN "error"
  ELSE IF \E i \in DOMAIN issues : issues[i].severity = "warning" THEN "warning"
  ELSE "ok"

\* _countProblematicElements: the distinct elements the issues refer to
CountProblematicElements(issues) ==
  Cardinality({issues[i].element : i \in {j \in DOMAIN issues :
                                            issues[j].element # Null}})

\* _calculatePerformanceScore, in half points (20 is the score 10): an error
\* costs 3, a warning 1, an info issue 0.5; Math.max(0, score).
RECURSIVE Deduct(_, _, _)
Deduct(issues, i, score) ==
  IF i > Len(issues) THEN score
  ELSE Deduct(issues, i + 1,
              score - (CASE issues[i].severity = "error" -> 6
                         [] issues[i].severity = "warning" -> 2
                         [] issues[i].severity = "info" -> 1
                         [] OTHER -> 0))

\* _calculatePerformanceScore without Math.max(0, score)
CalculatePerformanceScoreNoFloor(issues) == Deduct(issues, 1, 20)

CalculatePerformanceScore(issues) ==
  LET score == Deduct(issues, 1, 20) IN IF score > 0 THEN score ELSE 0

\* summary.performanceScore of a report computed in the current state
PerformanceScore(at, delay) == CalculatePerformanceScore(Issues(at, delay))

\* The report diagnose() builds at time ts.
Report(elements, at, thr, delay, h, ts) ==
  LET issues == DiagnoseIssues(elements, at, thr, delay, h)
  IN [status |-> DetermineStatus(issues),
      issues |-> issues,
      summary |-> [totalElements |-> Len(elements),
                   problematicElements |-> CountProblematicElements(issues),
                   performanceScore |-> CalculatePerformanceScore(issues),
                   timestamp |-> ts]]

\* The time to live of a cached report, in milliseconds.
CacheTtl == 5000

\* new Map()
EmptyCache == [v \in {} |-> <<>>]

\* Map.prototype.set and Map.prototype.delete on the cache
CacheSet(cache, key, report) ==
  [v \in DOMAIN cache \cup {key} |-> IF v = key THEN report ELSE cache[v]]

CacheDelete(cache, key) == [v \in DOMAIN cache \ {key} |-> cache[v]]

\* _outputDiagnosticResults publishing the report's status on the broadcast
\* channel instead of the console.
OutputDiagnosticResultsBroadcast(result, events) ==
  Append(events, [channel |-> "broadcast", detail |-> Detail(result.status, Null)])

\* _outputDiagnosticResults writes to the console; the notifications of the
\* step are what they were.
OutputDiagnosticResults(result, events) == events

\* ---------------------------------------------------------------- history
AllHaveIds(vis) == \A i \in DOMAIN vis : vis[i].id # Null

NoRoundTrip == [phase |-> "none"]

Layouts == [Elems -> Tops]

History(op, em, vis) ==
  /\ lastOp' = op
  /\ emitted' = em
  /\ lastDetail' = IF em = NoEvents THEN lastDetail ELSE <<em[Len(em)].detail.current>>
  /\ everVisible' = (everVisible \/ vis # <<>>)

\* getBoundingClientRect().top of the entries of the Visible Set, the only
\* elements a pass asks for: what a pass reads of layout t, and the readings
\* a pass can get.
ReadOf(t, vis) == [e \in MapKeys(vis) |-> t[e]]
Readings(vis) == [MapKeys(vis) -> Tops]

\* ---------------------------------------------------------------- Init
InitialLayout == [e \in Elems |-> IF e = "A" THEN 0 ELSE 1]

\* The state after new ScrollySystem(options): the constructor's fields,
\* then init(), which runs setup() at once unless the document is loading.
\* setupObserver() evaluates new IntersectionObserver(...): a ReferenceError
\* when the host does not define it, which nothing catches.  It escapes the
\* constructor when init() runs setup() at once.
Construct(pages, delays, callbacks) ==
  /\ readyState \in {"loading", "interactive"}
  /\ attr \in pages
  /\ debounceDelay \in delays
  /\ onChange \in callbacks
  /\ listener = (readyState = "loading")
  /\ thrown = IF readyState # "loading" /\ ~host.intersectionObserver
                THEN "constructor" ELSE Null
  /\ observer = IF readyState = "loading" \/ thrown # Null THEN Null ELSE "IO"
  /\ targets = IF readyState = "loading" \/ thrown # Null THEN {}
               ELSE Range(selected)
  /\ visibleElements = <<>>
  /\ LET u == UpdateCurrentTrigger(<<>>, InitialLayout, Null, Null, onChange)
         ran == readyState # "loading" /\ thrown = Null
     IN /\ currentTriggerId = IF ran THEN u.current ELSE Null
        /\ lastValidTriggerId = IF ran THEN u.lastValid ELSE Null
        /\ emitted = IF ran THEN u.emitted ELSE NoEvents
  /\ diagnosticCache = EmptyCache
  /\ cacheTimers = <<>>
  /\ now = 0
  /\ returned = <<>>
  /\ nComputed = 0
  /\ debounceTimer = <<>>
  /\ timers = {}
  /\ destroyed = FALSE
  /\ lastOp = "new"
  /\ layoutRead = <<>>
  /\ lastDetail = <<>>
  /\ everVisible = FALSE
  /\ roundTrip = NoRoundTrip
  /\ nBatches = 0
  /\ nPasses = 0
  /\ sinceBatch = 0
  /\ spacing = "none"
  /\ passAfter = 0
  /\ nCalls = 0
  /\ evicted = FALSE

\* The host page and the configuration the constructor finds.
Environment(hosts, selections, thresholds) ==
  /\ host \in hosts
  /\ selected \in selections
  /\ threshold \in thresholds

\* No diagnostic function is called on its own.
NoCall == args = <<>> /\ callResult = <<>>

\* new ScrollySystem(...) returned an instance.
Constructed == thrown # "constructor"

\* new ScrollySystem(config) on every page of Pages, with the default
\* debounceDelay and with every kind of onChange, the default (none) included.
Init ==
  /\ NoCall
  /\ Environment({Host}, {Elements}, {ConfigThreshold})
  /\ Construct(Pages, {DefaultDebounceDelay}, OnChangeKinds)

\* ---------------------------------------------------------------- actions
\* The DOMContentLoaded event: the listener of init(), if registered, runs
\* setup(): setupObserver(), then updateCurrentTrigger().
DOMContentLoaded(t) ==
  /\ readyState = "loading"
  /\ readyState' = "interactive"
  /\ IF listener /\ host.intersectionObserver
       THEN LET u == UpdateCurrentTrigger(visibleElements, t, currentTriggerId,
                                          lastValidTriggerId, onChange)
            IN /\ observer' = "IO"
               /\ layoutRead' = <<ReadOf(t, visibleElements)>>
               /\ targets' = Range(selected)
               /\ currentTriggerId' = u.current
               /\ lastValidTriggerId' = u.lastValid
               /\ History("setup", u.emitted, visibleElements)
               /\ UNCHANGED thrown
       ELSE /\ UNCHANGED <<observer, targets, currentTriggerId, lastValidTriggerId>>
            /\ layoutRead' = <<>>
            /\ thrown' = IF listener THEN "setup" ELSE thrown
            /\ History(IF listener THEN "threw" ELSE "ready", NoEvents,
                       visibleElements)
  /\ roundTrip' = NoRoundTrip
  /\ UNCHANGED <<listener, attr, debounceDelay, onChange, host, selected,
                 threshold, visibleElements, debounceTimer, timers, destroyed>>

\* The callback with a leading-edge debounce: the first batch of a burst
\* (no timer pending) runs the resolution pass at once.
CallbackLeadingEdge(batch) ==
  /\ observer # Null
  /\ visibleElements' = Intake(visibleElements, batch, 1, attr)
  /\ LET d == Debounce(timers, debounceTimer, debounceDelay)
         u == IF timers = {}
                THEN UpdateCurrentTrigger(visibleElements', InitialLayout,
                                          currentTriggerId, lastValidTriggerId,
                                          onChange)
                ELSE [current |-> currentTriggerId,
                      lastValid |-> lastValidTriggerId, emitted |-> NoEvents,
                      reentered |-> FALSE]
     IN /\ timers' = d.timers
        /\ debounceTimer' = d.handle
        /\ currentTriggerId' = u.current
        /\ lastValidTriggerId' = u.lastValid
        /\ History("batch", u.emitted, visibleElements')
  /\ layoutRead' = <<>>
  /\ roundTrip' = NoRoundTrip
  /\ UNCHANGED <<envVars, observer, targets, destroyed, thrown>>

\* The IntersectionObserver callback, invoked with one batch of entries.
Callback(batch) ==
  /\ observer # Null
  /\ visibleElements' = Intake(visibleElements, batch, 1, attr)
  /\ \E d \in {Debounce(timers, debounceTimer, debounceDelay)} :
        /\ timers' = d.timers
        /\ debounceTimer' = d.handle
  /\ History("batch", NoEvents, visibleElements')
  /\ layoutRead' = <<>>
  /\ roundTrip' = NoRoundTrip
  /\ UNCHANGED <<envVars, observer, targets, currentTriggerId, lastValidTriggerId,
                 destroyed, thrown>>

\* updateCurrentTrigger() run on layout t with tms the pending timers.  When
\* the onChange callback calls destroy(), the pass ends with destroy()'s
\* effects: the debounce timer cleared, the observer disconnected, the maps
\* emptied, the identifiers null.
ResolutionPass(op, t, tms) ==
  \E u \in {UpdateCurrentTrigger(visibleElements, t, currentTriggerId,
                                  lastValidTriggerId, onChange)} :
     /\ layoutRead' = <<ReadOf(t, visibleElements)>>
     /\ currentTriggerId' = u.current
     /\ lastValidTriggerId' = u.lastValid
     /\ timers' = IF u.reentered /\ debounceTimer # <<>>
                    THEN ClearTimeout(tms, debounceTimer) ELSE tms
     /\ targets' = IF u.reentered /\ observer # Null THEN {} ELSE targets
     /\ visibleElements' = IF u.reentered THEN <<>> ELSE visibleElements
     /\ destroyed' = (destroyed \/ u.reentered)
     /\ diagnosticCache' = IF u.reentered THEN EmptyCache ELSE diagnosticCache
     /\ History(op, u.emitted, visibleElements)
     /\ roundTrip' = NoRoundTrip
     /\ UNCHANGED <<envVars, observer, debounceTimer, thrown>>

\* A pending timer's callback runs: func.apply(this, args), the resolution pass.
RunTimer(tm, t) ==
  /\ tm \in timers
  /\ ResolutionPass("pass", t, timers \ {tm})

\* User code calls scrolly.updateCurrentTrigger() itself.
UpdateCurrentTriggerCall(t) == ResolutionPass("call", t, timers)

\* observe(element); element may be null.
Observe(element) ==
  /\ targets' = ObserveTargets(observer, targets, element)
  /\ History("observe", NoEvents, visibleElements)
  /\ layoutRead' = <<>>
  /\ UNCHANGED <<envVars, observer, visibleElements, currentTriggerId,
                 lastValidTriggerId, debounceTimer, timers, destroyed, thrown>>

\* An unobserve(element) that also calls the debounced update.
UnobserveSchedules(element) ==
  /\ targets' = UnobserveTargets(observer, targets, element)
  /\ visibleElements' = UnobserveVisible(observer, visibleElements, element)
  /\ LET d == Debounce(timers, debounceTimer, debounceDelay)
     IN /\ timers' = d.timers
        /\ debounceTimer' = d.handle
  /\ History("unobserve", NoEvents, visibleElements')
  /\ layoutRead' = <<>>
  /\ UNCHANGED <<envVars, observer, currentTriggerId, lastValidTriggerId,
                 destroyed, thrown>>

\* unobserve(element); element may be null.
Unobserve(element) ==
  /\ targets' = UnobserveTargets(observer, targets, element)
  /\ visibleElements' = UnobserveVisible(observer, visibleElements, element)
  /\ History("unobserve", NoEvents, visibleElements')
  /\ layoutRead' = <<>>
  /\ UNCHANGED <<envVars, observer, currentTriggerId, lastValidTriggerId,
                 debounceTimer, timers, destroyed, thrown>>

\* A destroy() that leaves lastValidTriggerId as it is.
DestroyKeepsLastValid ==
  /\ timers' = IF debounceTimer # <<>> THEN ClearTimeout(timers, debounceTimer)
               ELSE timers
  /\ targets' = IF observer # Null THEN {} ELSE targets
  /\ visibleElements' = <<>>
  /\ currentTriggerId' = Null
  /\ lastValidTriggerId' = lastValidTriggerId
  /\ destroyed' = TRUE
  /\ History("destroy", NoEvents, visibleElements')
  /\ layoutRead' = <<>>
  /\ roundTrip' = NoRoundTrip
  /\ diagnosticCache' = EmptyCache
  /\ UNCHANGED <<envVars, observer, debounceTimer, thrown>>

\* destroy()
Destroy ==
  /\ timers' = IF debounceTimer # <<>> THEN ClearTimeout(timers, debounceTimer)
               ELSE timers
  /\ targets' = IF observer # Null THEN {} ELSE targets
  /\ visibleElements' = <<>>
  /\ currentTriggerId' = Null
  /\ lastValidTriggerId' = Null
  /\ destroyed' = TRUE
  /\ History("destroy", NoEvents, visibleElements')
  /\ layoutRead' = <<>>
  /\ roundTrip' = NoRoundTrip
  /\ diagnosticCache' = EmptyCache
  /\ UNCHANGED <<envVars, observer, debounceTimer, thrown>>

\* No observe(e), unobserve(e) round trip is followed up.
Untracked == roundTrip' = NoRoundTrip

\* observe(element) has just been called: the Visible Set and the
\* performance score before it.
ObserveTracked(element) ==
  roundTrip' = [phase |-> "observed", el |-> element,
                before |-> visibleElements,
                score |-> PerformanceScore(attr, debounceDelay)]

\* unobserve(element) right after observe(element) ends the round trip.
UnobserveTracked(element) ==
  roundTrip' = IF roundTrip.phase = "observed" /\ roundTrip.el = element
                 THEN [phase |-> "done", el |-> element,
                       before |-> roundTrip.before, score |-> roundTrip.score]
                 ELSE NoRoundTrip

\* ---------------------------------------------------------------- Spec
\* Time is abstracted: a pending timer may run at any later point.
Next ==
  \/ \E t \in Readings(visibleElements) :
        DOMContentLoaded(t) /\ UNCHANGED <<timedVars, diagVars>>
  \/ \E batch \in Batches : Callback(batch) /\ UNCHANGED <<timedVars, diagVars>>
  \/ \E tm \in timers, t \in Readings(visibleElements) :
        RunTimer(tm, t) /\ UNCHANGED <<timedVars, diagRest>>
  \/ \E t \in Readings(visibleElements) :
        UpdateCurrentTriggerCall(t) /\ UNCHANGED <<timedVars, diagRest>>
  \/ \E e \in Elems \cup {Null} :
        Observe(e) /\ Untracked /\ UNCHANGED <<timedVars, diagVars>>
  \/ \E e \in Elems \cup {Null} :
        Unobserve(e) /\ Untracked /\ UNCHANGED <<timedVars, diagVars>>
  \/ Destroy /\ UNCHANGED <<timedVars, diagRest>>

Spec == Init /\ [][Next]_vars

\* ---------------------------------------------------------------- SpecRoundTrip
\* The instance of Spec with an observe(e) immediately followed by
\* unobserve(e) followed up in roundTrip.
NextRoundTrip ==
  \/ \E t \in Readings(visibleElements) :
        DOMContentLoaded(t) /\ UNCHANGED <<timedVars, diagVars>>
  \/ \E batch \in Batches : Callback(batch) /\ UNCHANGED <<timedVars, diagVars>>
  \/ \E tm \in timers, t \in Readings(visibleElements) :
        RunTimer(tm, t) /\ UNCHANGED <<timedVars, diagRest>>
  \/ \E t \in Readings(visibleElements) :
        UpdateCurrentTriggerCall(t) /\ UNCHANGED <<timedVars, diagRest>>
  \/ \E e \in Elems \cup {Null} :
        Observe(e) /\ ObserveTracked(e) /\ UNCHANGED <<timedVars, diagVars>>
  \/ \E e \in Elems \cup {Null} :
        Unobserve(e) /\ UnobserveTracked(e) /\ UNCHANGED <<timedVars, diagVars>>
  \/ Destroy /\ UNCHANGED <<timedVars, diagRest>>

SpecRoundTrip == Init /\ [][NextRoundTrip]_vars

\* ---------------------------------------------------------------- SpecTimed
\* Time in milliseconds.  A timer runs when its delay has elapsed, before
\* time advances further; a batch may arrive at any time.
Tick ==
  /\ \A tm \in timers : tm.left > 0
  /\ timers' = {[id |-> tm.id, left |-> tm.left - 1] : tm \in timers}
  /\ sinceBatch' = IF sinceBatch <= debounceDelay THEN sinceBatch + 1 ELSE sinceBatch
  /\ History("tick", NoEvents, visibleElements)
  /\ layoutRead' = <<>>
  /\ roundTrip' = NoRoundTrip
  /\ UNCHANGED <<envVars, observer, targets, visibleElements, currentTriggerId,
                 lastValidTriggerId, debounceTimer, destroyed, thrown>>
  /\ UNCHANGED <<nBatches, nPasses, spacing, passAfter, nCalls, evicted, diagVars>>

\* How the gap before a batch compares with debounceDelay.
Gap(since, delay) ==
  IF since < delay THEN "close" ELSE IF since > delay THEN "far" ELSE "mixed"

TimedCallback(batch) ==
  /\ nBatches < MaxBatches
  /\ Callback(batch)
  /\ nBatches' = nBatches + 1
  /\ sinceBatch' = 0
  /\ spacing' = IF nBatches = 0 THEN "none"
                ELSE IF spacing \in {"none", Gap(sinceBatch, debounceDelay)}
                  THEN Gap(sinceBatch, debounceDelay)
                  ELSE "mixed"
  /\ UNCHANGED <<nPasses, passAfter, nCalls, evicted, diagVars>>

TimedRunTimer(tm, t) ==
  /\ tm.left = 0
  /\ RunTimer(tm, t)
  /\ nPasses' = nPasses + 1
  /\ passAfter' = sinceBatch
  /\ UNCHANGED <<nBatches, sinceBatch, spacing, nCalls, evicted, diagRest>>

\* A call by user code, counted.
UserCall ==
  /\ nCalls < MaxCalls
  /\ nCalls' = nCalls + 1
  /\ UNCHANGED <<nBatches, nPasses, sinceBatch, spacing, passAfter, evicted>>

\* The instances of the timed specification: the page whose element C has
\* no trigger attribute, every debounceDelay of 1..MaxDelay, an onChange
\* that only reads the instance.
InitTimed ==
  /\ NoCall
  /\ Environment({Host}, {Elements}, {ConfigThreshold})
  /\ Construct({p \in Pages : p["C"] = Null}, 1..MaxDelay, {"plain"})

NextTimed ==
  \/ Tick
  \/ \E batch \in Batches : TimedCallback(batch)
  \/ \E tm \in timers, t \in Readings(visibleElements) : TimedRunTimer(tm, t)
  \/ \E t \in Readings(visibleElements) :
        UserCall /\ UpdateCurrentTriggerCall(t) /\ UNCHANGED diagRest
  \/ DOMContentLoaded(InitialLayout) /\ UNCHANGED <<timedVars, diagVars>>
  \/ \E e \in Elems \cup {Null} :
        UserCall /\ Observe(e) /\ Untracked /\ UNCHANGED diagVars
  \/ \E e \in Elems \cup {Null} :
        UserCall /\ Unobserve(e) /\ Untracked /\ UNCHANGED diagVars
  \/ Destroy /\ UNCHANGED <<timedVars, diagRest>>

SpecTimed == InitTimed /\ [][NextTimed]_vars

\* The timed specification with the host's scheduling: time passes, and a
\* timer that is due has its callback run by the event loop.
SpecFair ==
  /\ InitTimed
  /\ [][NextTimed]_vars
  /\ WF_vars(Tick)
  /\ WF_vars(\E tm \in timers, t \in Readings(visibleElements) :
               TimedRunTimer(tm, t))

\* ---------------------------------------------------------------- SpecUnobserve
\* The instance with unobserve() followed up: evicted records that the
\* element carrying the current trigger was unobserved and that no batch has
\* arrived since.
timedRest == <<nBatches, nPasses, sinceBatch, spacing, passAfter, nCalls>>

IsCurrentTrigger(element) ==
  /\ element \in targets
  /\ currentTriggerId # Null
  /\ attr[element] = currentTriggerId

\* The page whose element C has no trigger attribute, the default
\* debounceDelay, no onChange or one that only reads the instance.
InitUnobserve ==
  /\ NoCall
  /\ Environment({Host}, {Elements}, {ConfigThreshold})
  /\ Construct({p \in Pages : p["C"] = Null}, {DefaultDebounceDelay},
               {"none", "plain"})

NextUnobserve ==
  \/ /\ DOMContentLoaded(InitialLayout)
     /\ UNCHANGED <<timedVars, diagVars>>
  \/ \E batch \in Batches :
        /\ Callback(batch)
        /\ evicted' = FALSE
        /\ UNCHANGED <<timedRest, diagVars>>
  \/ \E tm \in timers, t \in Readings(visibleElements) :
        /\ RunTimer(tm, t)
        /\ UNCHANGED <<timedVars, diagRest>>
  \/ \E t \in Readings(visibleElements) :
        /\ UpdateCurrentTriggerCall(t)
        /\ UNCHANGED <<timedVars, diagRest>>
  \/ \E e \in QuerySelectorAll :
        /\ Observe(e)
        /\ Untracked
        /\ UNCHANGED <<timedVars, diagVars>>
  \/ \E e \in QuerySelectorAll :
        /\ Unobserve(e)
        /\ Untracked
        /\ evicted' = (evicted \/ (observer # Null /\ IsCurrentTrigger(e)))
        /\ UNCHANGED <<timedRest, diagVars>>
  \/ /\ Destroy
     /\ UNCHANGED <<timedVars, diagRest>>

SpecUnobserve == InitUnobserve /\ [][NextUnobserve]_vars

\* ---------------------------------------------------------------- SpecMalformed
\* new ScrollySystem({debounceDelay: -1}): the constructor spreads the options
\* over the defaults and validates nothing.
MalformedDelays == {0 - 1}

\* The page whose element C has no trigger attribute, an onChange that only
\* reads the instance.
InitMalformed ==
  /\ NoCall
  /\ Environment({Host}, {Elements}, {ConfigThreshold})
  /\ Construct({p \in Pages : p["C"] = Null}, MalformedDelays, {"plain"})

SpecMalformed == InitMalformed /\ [][NextTimed]_vars

\* ---------------------------------------------------------------- SpecDiagnose
\* config.debug
ConfigDebug == FALSE

\* diagnose(verbose)
Diagnose(verbose) ==
  /\ verbose \in DOMAIN diagnosticCache \/ nComputed < MaxReports
  /\ IF verbose \in DOMAIN diagnosticCache
       THEN /\ returned' = <<verbose, diagnosticCache[verbose]>>
            /\ History("diagnose", NoEvents, visibleElements)
            /\ UNCHANGED <<diagnosticCache, cacheTimers, nComputed>>
       ELSE LET result == Report(selected, attr, threshold, debounceDelay,
                                 host, now)
            IN /\ History("diagnose",
                          IF ConfigDebug \/ verbose
                            THEN OutputDiagnosticResults(result, NoEvents)
                            ELSE NoEvents,
                          visibleElements)
               /\ diagnosticCache' = CacheSet(diagnosticCache, verbose, result)
               /\ cacheTimers' = Append(cacheTimers,
                                        [key |-> verbose, left |-> CacheTtl])
               /\ returned' = <<verbose, result>>
               /\ nComputed' = nComputed + 1
  /\ layoutRead' = <<>>
  /\ roundTrip' = NoRoundTrip
  /\ UNCHANGED <<envVars, instVars, destroyed, thrown, now, pureVars>>

\* The eviction timer diagnose() set runs: this._diagnosticCache.delete(key).
\* All eviction timers have the same delay, so they run oldest first.
Evict ==
  /\ cacheTimers # <<>>
  /\ Head(cacheTimers).left = 0
  /\ diagnosticCache' = CacheDelete(diagnosticCache, Head(cacheTimers).key)
  /\ cacheTimers' = Tail(cacheTimers)
  /\ History("evict", NoEvents, visibleElements)
  /\ layoutRead' = <<>>
  /\ roundTrip' = NoRoundTrip
  /\ UNCHANGED <<envVars, instVars, destroyed, thrown, now, returned,
                 nComputed, pureVars>>

\* Time advances by d milliseconds, not past the expiry of an eviction timer.
TimeStep == CacheTtl \div 2
MaxTime == 2 * CacheTtl

Advance(d) ==
  /\ d > 0
  /\ now + d <= MaxTime
  /\ \A i \in DOMAIN cacheTimers : cacheTimers[i].left >= d
  /\ now' = now + d
  /\ cacheTimers' = [i \in DOMAIN cacheTimers |->
                       [key |-> cacheTimers[i].key,
                        left |-> cacheTimers[i].left - d]]
  /\ History("tick", NoEvents, visibleElements)
  /\ layoutRead' = <<>>
  /\ roundTrip' = NoRoundTrip
  /\ UNCHANGED <<envVars, instVars, destroyed, thrown, diagnosticCache,
                 returned, nComputed, pureVars>>

\* Hosts with and without IntersectionObserver; pages where the selector
\* matches nothing.
Hosts == {Host, [Host EXCEPT !.intersectionObserver = FALSE]}
Selections == {<<>>, Elements}

\* The page whose element C has no trigger attribute, the default
\* debounceDelay, an onChange that only reads the instance.
InitDiagnose ==
  /\ NoCall
  /\ Environment(Hosts, Selections, {ConfigThreshold})
  /\ Construct({p \in Pages : p["C"] = Null}, {DefaultDebounceDelay}, {"plain"})

\* The debounce timers are untimed here: a pending one may run at any point.
NextDiagnose ==
  \/ \E v \in BOOLEAN : Constructed /\ Diagnose(v) /\ UNCHANGED timedVars
  \/ Evict /\ UNCHANGED timedVars
  \/ \E d \in {TimeStep} \cup {cacheTimers[i].left : i \in DOMAIN cacheTimers} :
        Advance(d) /\ UNCHANGED timedVars
  \/ DOMContentLoaded(InitialLayout) /\ UNCHANGED <<timedVars, diagVars>>
  \/ \E batch \in Batches :
        /\ Len(batch) = 1
        /\ batch[1].target = "A"
        /\ Callback(batch)
        /\ UNCHANGED <<timedVars, diagVars>>
  \/ \E tm \in timers :
        RunTimer(tm, InitialLayout) /\ UNCHANGED <<timedVars, diagRest>>
  \/ Constructed /\ Destroy /\ UNCHANGED <<timedVars, diagRest>>

SpecDiagnose == InitDiagnose /\ [][NextDiagnose]_vars

\* ---------------------------------------------------------------- SpecReport
\* The functions of the diagnostics engine, each called on its own on
\* arguments drawn from bounded sets.
Severities == {"error", "warning", "info"}

RECURSIVE SeqsUpTo(_, _)
SeqsUpTo(S, n) ==
  IF n = 0 THEN {<<>>}
  ELSE LET shorter == SeqsUpTo(S, n - 1)
       IN shorter \cup {Append(q, x) : q \in {r \in shorter : Len(r) = n - 1},
                                       x \in S}

IssueLists ==
  {[i \in DOMAIN sevs |-> Issue("issue", sevs[i], Null)] :
     sevs \in SeqsUpTo(Severities, MaxIssues)}

\* Lists of tracked elements in document order, and their attributes.
ElementLists ==
  {SelectSeq(DocumentOrder, LAMBDA e : e \in sel) : sel \in SUBSET Elems}

Attributes == [Elems -> TriggerIds \cup {Null, ""}]

\* config.threshold: a number or an array of numbers in [0, 1], in tenths;
\* the arrays in ascending order.
ThresholdValues == {0, 2, 4, 6, 8, 10}

ThresholdConfigs ==
  {[isArray |-> FALSE, values |-> <<x>>] : x \in ThresholdValues}
  \cup {[isArray |-> TRUE, values |-> q] :
          q \in {r \in SeqsUpTo(ThresholdValues, MaxThresholds) :
                   \A i \in 1..(Len(r) - 1) : r[i] <= r[i + 1]}}

Delays == {0, 4, 5, DefaultDebounceDelay, 100, 101}

CallDetermineStatus ==
  /\ callResult = <<>>
  /\ "issues" \in DOMAIN args
  /\ callResult' = <<"_determineStatus", DetermineStatus(args.issues)>>

CallCalculatePerformanceScore ==
  /\ callResult = <<>>
  /\ "issues" \in DOMAIN args
  /\ callResult' = <<"_calculatePerformanceScore",
                  CalculatePerformanceScore(args.issues)>>

CallValidateElements ==
  /\ callResult = <<>>
  /\ "at" \in DOMAIN args
  /\ callResult' = <<"validateElements", ValidateElements(args.elements, args.at)>>

CallCheckPerformance ==
  /\ callResult = <<>>
  /\ "threshold" \in DOMAIN args
  /\ callResult' = <<"checkPerformance",
                  CheckPerformance(args.elements, args.threshold, args.delay)>>

InitReport ==
  /\ callResult = <<>>
  /\ \/ args \in [issues : IssueLists]
     \/ args \in [elements : ElementLists, at : Attributes]
     \/ args \in [elements : {Elements}, threshold : ThresholdConfigs,
                   delay : {DefaultDebounceDelay}]
     \/ args \in [elements : {Elements}, threshold : {ConfigThreshold},
                   delay : Delays]
  /\ Environment({Host}, {Elements}, {ConfigThreshold})
  /\ Construct({p \in Pages : p["C"] = Null}, {DefaultDebounceDelay}, {"plain"})
  /\ readyState = "interactive"

\* What a call of a diagnostic function leaves alone: everything but its
\* return value.
reportFrame == <<args, instVars, envVars, histVars, timedVars, thrown,
                 diagnosticCache, cacheTimers, now, returned, nComputed>>

NextReport ==
  \/ CallDetermineStatus /\ UNCHANGED reportFrame
  \/ CallCalculatePerformanceScore /\ UNCHANGED reportFrame
  \/ CallValidateElements /\ UNCHANGED reportFrame
  \/ CallCheckPerformance /\ UNCHANGED reportFrame

SpecReport == InitReport /\ [][NextReport]_vars

\* ================================================================ claims
IsPass(op) == op \in {"pass", "setup", "call"}

\* The passes the instance runs by itself: a debounce timer's and setup's.
IsOwnPass(op) == op \in {"pass", "setup"}

\* The onChange callback called destroy() during the notifications em: the
\* listeners of the broadcast no longer read the identifier notified.
DestroyedInCallback(em) ==
  \E k \in DOMAIN em : em[k].read # em[k].detail.current

\* The identifier a pass resolved, given the notifications it emitted and the
\* identifier current after it.
Resolved(em, cur) == IF em # NoEvents THEN em[1].detail.current ELSE cur

\* The entries of vis whose top coordinate in layout t is the smallest.
Topmost(vis, t) ==
  {i \in DOMAIN vis : \A j \in DOMAIN vis : t[vis[i].el] <= t[vis[j].el]}

\* ---------------------------------------------------------------- C1
\* C1 as stated: getCurrentTriggerId() is null until the Visible Set has been
\* non-empty at least once and is never null thereafter.
C1_NullUntilVisibleNeverAfter ==
  /\ ~everVisible => currentTriggerId = Null
  /\ everVisible => currentTriggerId # Null

\* C1 as amended: getCurrentTriggerId() leaves null only through a resolution
\* pass over a non-empty Visible Set; a pass over a non-empty Visible Set
\* whose elements all carry a trigger identifier leaves it non-null; and once
\* non-null it returns to null only through destroy() or a pass over a
\* Visible Set that holds an element without trigger identifier, never
\* through a pass over an empty Visible Set (sticky fallback).  A destroy()
\* called by the onChange callback of a pass resets it like any destroy().
C1_StickyFallback ==
  [][/\ (currentTriggerId = Null /\ currentTriggerId' # Null)
          => (IsPass(lastOp') /\ visibleElements # <<>>)
     /\ (IsPass(lastOp') /\ visibleElements # <<>> /\ AllHaveIds(visibleElements))
          => \/ currentTriggerId' # Null
             \/ DestroyedInCallback(emitted') /\ destroyed'
     /\ (currentTriggerId # Null /\ currentTriggerId' = Null)
          => \/ lastOp' = "destroy"
             \/ (IsPass(lastOp') /\ visibleElements # <<>>
                 /\ ~AllHaveIds(visibleElements))]_vars

\* A pass over an empty Visible Set has run and the trigger is retained.
C1_Witness ==
  /\ lastOp = "pass"
  /\ visibleElements = <<>>
  /\ currentTriggerId # Null
  /\ ~destroyed

\* ---------------------------------------------------------------- C2
\* C2: after a resolution pass over a non-empty Visible Set, the resolved
\* identifier (currentTriggerId and lastValidTriggerId) is the identifier
\* stored for a visible element whose top coordinate, in the layout the pass
\* read, is the smallest among the visible entries.
C2_ResolvesTopmost ==
  (IsPass(lastOp) /\ visibleElements # <<>>) =>
    \E i \in Topmost(visibleElements, layoutRead[1]) :
      /\ currentTriggerId = visibleElements[i].id
      /\ lastValidTriggerId = visibleElements[i].id

\* A pass resolved an entry that is not the first of the Visible Set and
\* carries another identifier than the first.
C2_Witness ==
  /\ lastOp = "pass"
  /\ Len(visibleElements) >= 2
  /\ 1 \notin Topmost(visibleElements, layoutRead[1])
  /\ currentTriggerId # visibleElements[1].id
  /\ emitted # NoEvents

\* ---------------------------------------------------------------- C3
\* What C3 says of one pass: a resolution pass that resolves to
\* currentTriggerId, or to Retain, emits nothing and changes no field of the
\* instance; every notification has current different from previous; a pass
\* emits at most one notification (one callback call, one broadcast); no
\* other operation emits.
C3_PerPass ==
  [][/\ IsPass(lastOp') =>
          LET retain == visibleElements = <<>> /\ lastValidTriggerId = Null
              id == IF visibleElements # <<>>
                      THEN TopEntry(visibleElements, layoutRead'[1]).id
                      ELSE lastValidTriggerId
          IN (retain \/ id = currentTriggerId) =>
               /\ emitted' = NoEvents
               /\ UNCHANGED <<visibleElements, currentTriggerId,
                              lastValidTriggerId>>
     /\ ~IsPass(lastOp') => emitted' = NoEvents
     /\ \A k \in DOMAIN emitted' :
          emitted'[k].detail.current # emitted'[k].detail.previous
     /\ \A c \in {"callback", "broadcast"} :
          Cardinality({k \in DOMAIN emitted' : emitted'[k].channel = c}) <= 1]_vars

\* C3: at most one notification per identifier transition: a pass that
\* resolves to currentTriggerId, or to Retain, emits nothing and changes no
\* state, every notification has current different from previous, and
\* passes that resolve the same identifier twice in a row produce one
\* notification: no notification repeats the current of the one before it.
C3_AtMostOneNotification ==
  /\ C3_PerPass
  /\ [][(emitted' # NoEvents /\ lastDetail # <<>>) =>
          emitted'[1].detail.current # lastDetail[1]]_vars

\* ---------------------------------------------------------------- C4
\* C4 (timers run exactly when due; destroy() not called): batches that each
\* arrive less than debounceDelay after the previous one cause exactly one
\* resolution pass, run debounceDelay after the last batch; batches that each
\* arrive more than debounceDelay after the previous one cause one pass each.
C4_DebounceCoalescing ==
  (~destroyed /\ nBatches >= 1) =>
    /\ spacing \in {"none", "close"} =>
         /\ nPasses <= 1
         /\ nPasses = 1 => (passAfter = debounceDelay /\ timers = {})
         /\ sinceBatch < debounceDelay => nPasses = 0
         /\ sinceBatch > debounceDelay => nPasses = 1
    /\ spacing \in {"none", "far"} =>
         /\ nPasses \in {nBatches - 1, nBatches}
         /\ sinceBatch < debounceDelay => nPasses = nBatches - 1
         /\ sinceBatch > debounceDelay => nPasses = nBatches

\* Several batches arrived close together and the one pass has run.
C4_Witness ==
  /\ ~destroyed
  /\ nBatches >= 2
  /\ spacing = "close"
  /\ nPasses = 1
  /\ lastOp = "pass"

\* Several batches arrived far apart and each has had its pass.
C4_WitnessFar ==
  /\ ~destroyed
  /\ nBatches >= 2
  /\ spacing = "far"
  /\ nPasses = nBatches

\* ---------------------------------------------------------------- C5
\* C5: every notification carries the new identifier as current, the value
\* getCurrentTriggerId() had before the transition as previous and the
\* instance's id; the first notification has previous = null and every later
\* one has previous equal to the preceding notification's current.
C5_PayloadChain ==
  [][\A k \in DOMAIN emitted' :
       /\ emitted'[k].detail.current =
            IF visibleElements # <<>>
              THEN TopEntry(visibleElements, layoutRead'[1]).id
              ELSE lastValidTriggerId
       /\ emitted'[k].detail.previous = currentTriggerId
       /\ emitted'[k].detail.instanceId = InstanceId
       /\ emitted'[k].detail.previous =
            IF lastDetail = <<>> THEN Null ELSE lastDetail[1]]_vars

\* ---------------------------------------------------------------- C6
\* C6: destroy() leaves no resolution pass pending, and once destroy() has
\* been called no resolution pass runs and no notification is emitted.
C6_NothingAfterDestroy ==
  [][/\ lastOp' = "destroy" => \A tm \in timers' : debounceTimer' # <<tm.id>>
     /\ destroyed => (~IsPass(lastOp') /\ emitted' = NoEvents)]_vars

\* The part of C6 that concerns the timer: destroy() cancels the pending pass.
C6_PendingPassCancelled ==
  [][lastOp' = "destroy" => timers' = {}]_vars

\* ---------------------------------------------------------------- C7
\* C7: after destroy(), observe(e) and unobserve(e) change nothing: no
\* element becomes registered, the Visible Set stays empty and the
\* resolution state is unchanged.
C7_DestroyedOpsAreNoOps ==
  [][(destroyed /\ lastOp' \in {"observe", "unobserve"}) =>
       /\ targets' = targets
       /\ targets' = {}
       /\ visibleElements' = <<>>
       /\ UNCHANGED <<currentTriggerId, lastValidTriggerId, timers>>
       /\ emitted' = NoEvents]_vars

\* ---------------------------------------------------------------- C8
\* C8: Destroyed is terminal: once destroy() has been called, also before the
\* page-ready event, the instance never enters Active: setup() does not run,
\* no observer is created, no element is registered by the page-ready event,
\* no resolution pass runs and nothing is emitted.
C8_DestroyedIsTerminal ==
  [][destroyed =>
       /\ lastOp' # "setup"
       /\ observer' = observer
       /\ IsPass(lastOp') \/ lastOp' = "ready" => targets' = targets
       /\ ~IsPass(lastOp')
       /\ emitted' = NoEvents]_vars

\* ---------------------------------------------------------------- C9
\* C9: in every reachable state every key of the Visible Set is an element
\* registered for observation.
C9_VisibleAreRegistered == MapKeys(visibleElements) \subseteq targets

\* ---------------------------------------------------------------- C10
\* C10 as stated: observe(e) followed immediately by unobserve(e) leaves the
\* Visible Set and the performance score as they were before observe(e), for
\* every element e.
C10_RoundTrip ==
  roundTrip.phase = "done" =>
    /\ visibleElements = roundTrip.before
    /\ PerformanceScore(attr, debounceDelay) = roundTrip.score

\* C10 as amended: the same, for every element e that is not in the Visible
\* Set when observe(e) is called.
C10_RoundTripOfHidden ==
  (roundTrip.phase = "done" /\ roundTrip.el \notin MapKeys(roundTrip.before)) =>
    /\ visibleElements = roundTrip.before
    /\ PerformanceScore(attr, debounceDelay) = roundTrip.score

\* The round trip has run on an Active instance, for an element that was
\* not registered, while another element is visible.
C10_Witness ==
  /\ roundTrip.phase = "done"
  /\ roundTrip.el # Null
  /\ roundTrip.el \notin MapKeys(roundTrip.before)
  /\ roundTrip.el \notin targets
  /\ roundTrip.before # <<>>
  /\ observer # Null
  /\ ~destroyed

\* C11: diagnose(verbose) is read-only with respect to tracked state: for both
\* values of verbose a diagnose call leaves the Visible Set, currentTriggerId,
\* lastValidTriggerId, the observation registrations and the pending debounce
\* timer unchanged and emits no notification.
C11_DiagnoseReadOnly ==
  [][lastOp' = "diagnose" =>
       /\ UNCHANGED <<visibleElements, currentTriggerId, lastValidTriggerId,
                      observer, targets, debounceTimer, timers>>
       /\ emitted' = NoEvents]_vars

\* A verbose diagnose call has computed a report while an element was
\* visible, a trigger was current and a debounce timer was pending.
C11_Witness ==
  /\ lastOp = "diagnose"
  /\ returned # <<>> /\ returned[1] = TRUE
  /\ returned[2].summary.timestamp = now
  /\ visibleElements # <<>>
  /\ currentTriggerId # Null
  /\ debounceTimer # <<>>
  /\ timers # {}

\* The age of the cached report for verbose value v.
Age(cache, v, time) == time - cache[v].summary.timestamp

\* C12: diagnostic reports are cached per verbose value for 5 seconds: a
\* diagnose(v) call that finds a report for v returns it without recomputing
\* and leaves the entry of the other verbose value alone; a stored report
\* stays until it is 5 seconds old and is evicted then, not earlier
\* (destroy() empties the cache).
C12_CachedForFiveSeconds ==
  [][/\ lastOp' = "diagnose" =>
          /\ returned'[1] \in DOMAIN diagnosticCache =>
                /\ returned'[2] = diagnosticCache[returned'[1]]
                /\ nComputed' = nComputed
          /\ \A v \in BOOLEAN \ {returned'[1]} :
                /\ (v \in DOMAIN diagnosticCache) = (v \in DOMAIN diagnosticCache')
                /\ v \in DOMAIN diagnosticCache =>
                     diagnosticCache'[v] = diagnosticCache[v]
     /\ \A v \in DOMAIN diagnosticCache :
          v \notin DOMAIN diagnosticCache' /\ lastOp' # "destroy" =>
            Age(diagnosticCache, v, now) = CacheTtl
     /\ \A v \in DOMAIN diagnosticCache' :
          Age(diagnosticCache', v, now') <= CacheTtl]_vars

\* The number of issues of one severity in a list.
Count(issues, severity) ==
  Cardinality({i \in DOMAIN issues : issues[i].severity = severity})

\* C13: the report status is derived from the issue list, for every list:
\* "error" if at least one issue has severity error; otherwise "warning" if
\* at least one has severity warning; otherwise "ok" (also for the empty
\* list and for lists of info issues only).
C13_StatusFromIssues ==
  callResult # <<>> /\ callResult[1] = "_determineStatus" =>
    /\ Count(args.issues, "error") >= 1 => callResult[2] = "error"
    /\ Count(args.issues, "error") = 0 /\ Count(args.issues, "warning") >= 1 =>
         callResult[2] = "warning"
    /\ Count(args.issues, "error") = 0 /\ Count(args.issues, "warning") = 0 =>
         callResult[2] = "ok"

\* The status of a list that holds a warning before an error has been
\* derived.
C13_Witness ==
  /\ callResult # <<>> /\ callResult[1] = "_determineStatus"
  /\ Len(args.issues) >= 3
  /\ args.issues[1].severity = "info"
  /\ args.issues[2].severity = "warning"
  /\ args.issues[3].severity = "error"
  /\ callResult[2] = "error"

\* C14: the performance score of a report with e error, w warning and i info
\* issues equals max(0, 10 - 3e - w - 0.5i), here in half points, and so lies
\* in [0, 10], for every issue list.
C14_ScoreFormula ==
  callResult # <<>> /\ callResult[1] = "_calculatePerformanceScore" =>
    LET raw == 20 - 6 * Count(args.issues, "error")
                  - 2 * Count(args.issues, "warning")
                  - Count(args.issues, "info")
    IN /\ callResult[2] = IF raw > 0 THEN raw ELSE 0
       /\ callResult[2] \in 0..20

\* The score of a list whose deductions exceed 10 has been computed: floored.
C14_Witness ==
  /\ callResult # <<>> /\ callResult[1] = "_calculatePerformanceScore"
  /\ Count(args.issues, "error") = 4
  /\ Count(args.issues, "info") = 1
  /\ callResult[2] = 0

\* The issue types of element validation.
ElementIssueTypes ==
  {"no_elements", "missing_trigger_id", "duplicate_trigger_id",
   "insufficient_height", "element_hidden", "element_visibility_hidden",
   "fixed_position"}

\* C15: when no element matches the configured selector, diagnose returns a
\* report with status "error" that contains an issue of type no_elements with
\* severity error, and element validation contributes exactly that one issue.
C15_NoElements ==
  returned # <<>> /\ selected = <<>> =>
    LET report == returned[2]
        fromElements == {i \in DOMAIN report.issues :
                           report.issues[i].type \in ElementIssueTypes}
    IN /\ report.status = "error"
       /\ \E i \in DOMAIN report.issues :
            /\ report.issues[i].type = "no_elements"
            /\ report.issues[i].severity = "error"
       /\ Cardinality(fromElements) = 1
       /\ report.summary.totalElements = 0

\* diagnose has returned a report for a page where the selector matches
\* nothing, on a host that gives no other error.
C15_Witness ==
  /\ returned # <<>>
  /\ selected = <<>>
  /\ host.intersectionObserver
  /\ lastOp = "diagnose"
  /\ Len(returned[2].issues) = 1

\* The number of issues of one type that refer to one element.
IssuesOn(issues, type, element) ==
  Cardinality({i \in DOMAIN issues :
                 issues[i].type = type /\ issues[i].element = element})

\* C16: duplicate trigger identifiers are reported per duplicate: each element
\* whose non-empty identifier already occurred on an earlier element yields
\* exactly one duplicate_trigger_id error referring to it (k elements sharing
\* an identifier yield k-1), an element whose identifier has not occurred
\* before yields none, and an element without the attribute yields a
\* missing_trigger_id error instead.
C16_DuplicatePerDuplicate ==
  callResult # <<>> /\ callResult[1] = "validateElements" /\ args.elements # <<>> =>
    LET issues == callResult[2]
        elements == args.elements
        id(k) == args.at[elements[k]]
        earlier(k) == \E j \in 1..(k - 1) : id(j) = id(k)
    IN /\ \A k \in DOMAIN elements :
            LET dup == IssuesOn(issues, "duplicate_trigger_id", elements[k])
                missing == IssuesOn(issues, "missing_trigger_id", elements[k])
            IN /\ id(k) \in TriggerIds /\ earlier(k) => dup = 1 /\ missing = 0
               /\ id(k) \in TriggerIds /\ ~earlier(k) => dup = 0 /\ missing = 0
               /\ id(k) = Null => dup = 0 /\ missing = 1
               /\ id(k) = "" => dup = 0
       /\ \A i \in DOMAIN issues :
            issues[i].type \in {"duplicate_trigger_id", "missing_trigger_id"} =>
              /\ issues[i].severity = "error"
              /\ issues[i].element \in Range(elements)
       /\ \A x \in TriggerIds :
            LET sharing == {k \in DOMAIN elements : id(k) = x}
            IN sharing # {} =>
                 Cardinality({i \in DOMAIN issues :
                                /\ issues[i].type = "duplicate_trigger_id"
                                /\ args.at[issues[i].element] = x})
                   = Cardinality(sharing) - 1

\* Three elements sharing one identifier have been validated: two
\* duplicate_trigger_id errors, on the second and the third.
C16_Witness ==
  /\ callResult # <<>> /\ callResult[1] = "validateElements"
  /\ args.elements = DocumentOrder
  /\ \A e \in Elems : args.at[e] = "intro"
  /\ Len(callResult[2]) = 2
  /\ callResult[2][1] = Issue("duplicate_trigger_id", "error", "B")
  /\ callResult[2][2] = Issue("duplicate_trigger_id", "error", "C")

\* The number of issues of one type in a list.
OfType(issues, type) ==
  Cardinality({i \in DOMAIN issues : issues[i].type = type})

\* C17: a configured threshold of exactly 1.0 yields a high_threshold warning,
\* and no other threshold configuration (another number, or an array, also
\* the array [1.0]) yields that warning.
C17_HighThreshold ==
  callResult # <<>> /\ callResult[1] = "checkPerformance" =>
    LET issues == callResult[2]
        exactlyOne == ~args.threshold.isArray /\ args.threshold.values[1] = 10
    IN /\ OfType(issues, "high_threshold") = IF exactlyOne THEN 1 ELSE 0
       /\ \A i \in DOMAIN issues :
            issues[i].type = "high_threshold" => issues[i].severity = "warning"

\* checkPerformance has run with threshold 1.0 and given the warning.
C17_Witness ==
  /\ callResult # <<>> /\ callResult[1] = "checkPerformance"
  /\ args.threshold = [isArray |-> FALSE, values |-> <<10>>]
  /\ callResult[2] = <<Issue("high_threshold", "warning", Null)>>

\* C18 as stated: the complex-threshold warning is raised exactly when the
\* configured threshold has more than 5 distinct values, whatever its length.
C18_MoreThanFiveDistinct ==
  callResult # <<>> /\ callResult[1] = "checkPerformance" =>
    (OfType(callResult[2], "complex_threshold") = 1)
      = (Cardinality(Range(args.threshold.values)) > 5)

\* C18 as amended: the complex-threshold warning is raised exactly when the
\* configured threshold is an array of more than 5 entries, repeated values
\* counted as often as they occur.
C18_MoreThanFiveEntries ==
  callResult # <<>> /\ callResult[1] = "checkPerformance" =>
    /\ OfType(callResult[2], "complex_threshold") \in {0, 1}
    /\ (OfType(callResult[2], "complex_threshold") = 1)
         = (args.threshold.isArray /\ Len(args.threshold.values) > 5)

\* checkPerformance has run with an array of six entries of two distinct
\* values and given the warning.
C18_Witness ==
  /\ callResult # <<>> /\ callResult[1] = "checkPerformance"
  /\ args.threshold.isArray
  /\ Len(args.threshold.values) = 6
  /\ Cardinality(Range(args.threshold.values)) = 2
  /\ OfType(callResult[2], "complex_threshold") = 1

\* C19: malformed configuration fails fast: constructing an instance with a
\* negative debounceDelay ends in an error at construction and never yields
\* an instance that observes and schedules resolution passes, with the
\* malformed delay or a clamped one.
C19_NegativeDelayFailsFast ==
  debounceDelay < 0 =>
    /\ thrown = "constructor"
    /\ observer = Null
    /\ ~listener
    /\ timers = {}

\* C20: when the host has no observation subsystem, construction and startup
\* do not fail: the instance is usable, its Visible Set stays empty and
\* getCurrentTriggerId() null, and diagnose reports an error issue of type
\* no_intersection_observer.
C20_DegradesWithoutObserver ==
  ~host.intersectionObserver =>
    /\ thrown = Null
    /\ visibleElements = <<>>
    /\ currentTriggerId = Null
    /\ returned # <<>> =>
         /\ returned[2].status = "error"
         /\ \E i \in DOMAIN returned[2].issues :
              returned[2].issues[i] = Issue("no_intersection_observer", "error", Null)

\* The identifiers stored in a Visible Set.
IdsOf(vis) == {vis[i].id : i \in DOMAIN vis}

\* C21: on entering Active the instance registers every element matching the
\* selector and runs one immediate resolution pass, by which a tracked
\* element that is on screen at that moment is resolved as the current
\* trigger, without waiting for a visibility event.  The elements on screen
\* at that moment are those the observer's first batch, delivered right
\* after setup(), reports as intersecting: when that batch arrives, the
\* identifier of one of them is current already.
C21_SetupPassResolvesOnScreen ==
  [][/\ lastOp' = "setup" =>
          /\ targets' = Range(selected)
          /\ layoutRead' # <<>>
     /\ (/\ lastOp \in {"new", "setup"}
         /\ observer # Null
         /\ ~destroyed
         /\ lastOp' = "batch"
         /\ visibleElements' # <<>>)
          => currentTriggerId \in IdsOf(visibleElements')]_vars

\* The earliest inserted of the entries with the smallest top coordinate.
FirstTopmost(vis, t) ==
  LET top == Topmost(vis, t)
  IN CHOOSE i \in top : \A j \in top : i <= j

\* C22: tie-break: when several visible elements share the smallest top
\* coordinate, the resolution pass resolves to the one that comes first in
\* Visible Set iteration order (the entry inserted earliest), and a pass
\* repeated on an unchanged Visible Set and unchanged geometry resolves the
\* same identifier.
C22_FirstEncounteredWins ==
  [][IsPass(lastOp') /\ visibleElements # <<>> =>
       /\ Resolved(emitted', currentTriggerId') =
            visibleElements[FirstTopmost(visibleElements, layoutRead'[1])].id
       /\ (/\ IsPass(lastOp)
           /\ layoutRead' = layoutRead) => currentTriggerId' = currentTriggerId]_vars

\* A pass has resolved a tie between entries with different identifiers in
\* favour of the one inserted first.
C22_Witness ==
  /\ lastOp = "pass"
  /\ Len(visibleElements) >= 2
  /\ LET tied == Topmost(visibleElements, layoutRead[1])
     IN /\ {1, 2} \subseteq tied
        /\ visibleElements[1].id # visibleElements[2].id
        /\ currentTriggerId = visibleElements[1].id

\* C23 as stated: the debounce is trailing-edge only: the arrival of a batch
\* updates the Visible Set but runs no resolution pass and emits nothing;
\* currentTriggerId changes only when a debounce timer fires or in the setup
\* pass, never in the step that takes in a batch.
C23_ChangesOnlyInPasses ==
  [][/\ lastOp' = "batch" =>
          /\ emitted' = NoEvents
          /\ UNCHANGED <<currentTriggerId, lastValidTriggerId>>
     /\ currentTriggerId' # currentTriggerId => IsOwnPass(lastOp')]_vars

\* C23 as amended: the same, except that currentTriggerId also changes when
\* user code calls updateCurrentTrigger() itself and when destroy() resets
\* it to null.
C23_TrailingEdgeOnly ==
  [][/\ lastOp' = "batch" =>
          /\ emitted' = NoEvents
          /\ UNCHANGED <<currentTriggerId, lastValidTriggerId>>
          /\ timers' # {}
     /\ currentTriggerId' # currentTriggerId =>
          \/ IsPass(lastOp')
          \/ lastOp' = "destroy" /\ currentTriggerId' = Null]_vars

\* A batch has made visible an element other than the current trigger's and
\* hidden that one: the trigger is unchanged and a timer is pending.
C23_Witness ==
  /\ lastOp = "batch"
  /\ ~destroyed
  /\ currentTriggerId # Null
  /\ visibleElements # <<>>
  /\ currentTriggerId \notin IdsOf(visibleElements)
  /\ debounceTimer # <<>>
  /\ timers # {}

\* C24: in every reachable state the instance has at most one pending
\* debounce timer, and it is the one the instance holds the handle of: a
\* batch cancels the pending timer before scheduling a new one with the full
\* delay, so a cancelled timer is never pending and its pass never runs.
C24_AtMostOnePendingTimer ==
  /\ Cardinality(timers) <= 1
  /\ \A tm \in timers :
       /\ debounceTimer = <<tm.id>>
       /\ lastOp = "batch" => tm.left = TimerDelay(debounceDelay)
  /\ nPasses <= nBatches

\* A second batch arrived while the first batch's timer was pending: one
\* timer is pending, with the full delay, and no pass has run.
C24_Witness ==
  /\ lastOp = "batch"
  /\ nBatches >= 2
  /\ spacing = "close"
  /\ nPasses = 0
  /\ Cardinality(timers) = 1

\* C25 (liveness, under SpecFair): if a batch arrives at an Active instance,
\* batches eventually stop and destroy() is not called, then from some point
\* on no debounce timer is pending and a debounced pass has run, debounceDelay
\* after the last batch; every debounced pass reads the Visible Set as the
\* batches (and unobserve) before it left it, and right after it, when that
\* Visible Set is non-empty, getCurrentTriggerId() is the identifier of its
\* top-most element.
C25_PassAfterLastBatch ==
  /\ <>[](\/ nBatches = 0
          \/ destroyed
          \/ /\ timers = {}
             /\ nPasses >= 1
             /\ passAfter = TimerDelay(debounceDelay))
  /\ [][(lastOp' = "pass" /\ ~destroyed' /\ visibleElements # <<>>) =>
          /\ visibleElements' = visibleElements
          /\ layoutRead'[1] \in Readings(visibleElements)
          /\ currentTriggerId' =
               visibleElements[FirstTopmost(visibleElements, layoutRead'[1])].id]_vars

\* Several batches arrived, the last pass has just run on a Visible Set of
\* two elements and the trigger is the top-most one's.
C25_Witness ==
  /\ ~destroyed
  /\ nBatches >= 2
  /\ lastOp = "pass"
  /\ timers = {}
  /\ Len(visibleElements) >= 2
  /\ currentTriggerId # Null
  /\ currentTriggerId =
       visibleElements[FirstTopmost(visibleElements, layoutRead[1])].id

\* The current field of the most recently emitted notification, null if none.
LastNotified(last) == IF last = <<>> THEN Null ELSE last[1]

\* C26 as stated: currentTriggerId always equals the current field of the
\* most recently emitted notification (null if none yet) and changes only in
\* a Change Notifier step that also emits; no other operation changes it.
C26_EqualsLastNotified ==
  [][/\ currentTriggerId' = LastNotified(lastDetail')
     /\ currentTriggerId' # currentTriggerId =>
          /\ IsPass(lastOp')
          /\ emitted' # NoEvents]_vars

\* C26 as amended: the same, except that destroy(), also when the onChange
\* callback calls it, resets currentTriggerId to null without emitting,
\* after which it is null until the next notification.
C26_EqualsLastNotifiedOrReset ==
  [][/\ \/ currentTriggerId' = LastNotified(lastDetail')
        \/ destroyed' /\ currentTriggerId' = Null
     /\ lastOp' # "destroy" =>
          \/ currentTriggerId' = LastNotified(lastDetail')
          \/ UNCHANGED <<currentTriggerId, lastDetail>>
          \/ DestroyedInCallback(emitted') /\ currentTriggerId' = Null
     /\ currentTriggerId' # currentTriggerId =>
          \/ /\ IsPass(lastOp')
             /\ emitted' # NoEvents
             /\ emitted'[Len(emitted')].detail.current = currentTriggerId'
          \/ /\ lastOp' = "destroy"
             /\ currentTriggerId' = Null
             /\ emitted' = NoEvents]_vars

\* A second notification has just been emitted and the trigger is its
\* current field.
C26_Witness ==
  /\ lastOp = "pass"
  /\ ~destroyed
  /\ emitted # NoEvents
  /\ emitted[1].detail.previous # Null
  /\ currentTriggerId = LastNotified(lastDetail)
  /\ currentTriggerId # Null

\* C27 as stated: lastValidTriggerId is written only by a resolution pass
\* that finds the Visible Set non-empty; a pass over an empty Visible Set
\* leaves lastValidTriggerId and the Visible Set unchanged, and no other
\* operation changes lastValidTriggerId.
C27_WrittenOnlyByPasses ==
  [][/\ lastValidTriggerId' # lastValidTriggerId =>
          /\ IsPass(lastOp')
          /\ visibleElements # <<>>
     /\ (IsPass(lastOp') /\ visibleElements = <<>>) =>
          UNCHANGED <<lastValidTriggerId, visibleElements>>]_vars

\* C27 as amended: the same, except that destroy() also changes
\* lastValidTriggerId, resetting it to null.
C27_WrittenByPassesAndDestroy ==
  [][/\ lastValidTriggerId' # lastValidTriggerId =>
          \/ /\ IsPass(lastOp')
             /\ visibleElements # <<>>
             /\ lastValidTriggerId' =
                  visibleElements[FirstTopmost(visibleElements, layoutRead'[1])].id
          \/ /\ lastOp' = "destroy"
             /\ lastValidTriggerId' = Null
     /\ (IsPass(lastOp') /\ visibleElements = <<>>) =>
          UNCHANGED <<lastValidTriggerId, visibleElements>>]_vars

\* A pass has just run over an empty Visible Set with an identifier
\* remembered.
C27_Witness ==
  /\ lastOp = "pass"
  /\ ~destroyed
  /\ visibleElements = <<>>
  /\ lastValidTriggerId # Null

\* C28: on each identifier transition currentTriggerId is updated first,
\* then the onChange callback (if configured) is invoked, then the broadcast
\* is published with the identical payload: getCurrentTriggerId() read in a
\* listener equals payload.current, and every callback invocation is
\* followed by exactly one broadcast of the same payload.
C28_AssignCallbackBroadcast ==
  [][/\ (IsPass(lastOp') /\ currentTriggerId' # currentTriggerId) =>
          Len(emitted') = IF onChange # "none" THEN 2 ELSE 1
     /\ \A k \in DOMAIN emitted' :
          /\ emitted'[k].read = emitted'[k].detail.current
          /\ emitted'[k].channel = "callback" =>
               /\ onChange # "none"
               /\ k = 1
               /\ Len(emitted') = 2
               /\ emitted'[2].channel = "broadcast"
               /\ emitted'[2].detail = emitted'[1].detail
          /\ emitted'[k].channel = "broadcast" =>
               /\ k = Len(emitted')
               /\ onChange # "none" =>
                    (k = 2 /\ emitted'[1].channel = "callback")]_vars

\* C29: between operations lastValidTriggerId equals currentTriggerId (both
\* null initially and after destroy, both the resolved identifier after a
\* pass); hence a resolution pass over an empty Visible Set, sticky fallback
\* included, never changes currentTriggerId and never emits.
C29_LastValidIsCurrent ==
  /\ lastValidTriggerId = currentTriggerId
  /\ [][/\ lastValidTriggerId' = currentTriggerId'
        /\ (IsPass(lastOp') /\ visibleElements = <<>>) =>
             /\ currentTriggerId' = currentTriggerId
             /\ emitted' = NoEvents]_vars

\* The sticky fallback has just run: a pass over an empty Visible Set with an
\* identifier remembered, which emitted nothing.
C29_Witness ==
  /\ lastOp = "pass"
  /\ layoutRead # <<>>
  /\ visibleElements = <<>>
  /\ lastValidTriggerId # Null
  /\ currentTriggerId = lastValidTriggerId
  /\ emitted = NoEvents

\* C30 as stated: unobserve(e) schedules no resolution pass and emits
\* nothing; it leaves currentTriggerId, lastValidTriggerId and the pending
\* debounce timer unchanged, so after unobserving the element that is the
\* current trigger getCurrentTriggerId() keeps returning that element's
\* identifier until a later batch causes a resolution pass.
C30_KeptUntilLaterBatch ==
  [][/\ lastOp' = "unobserve" =>
          /\ emitted' = NoEvents
          /\ layoutRead' = <<>>
          /\ UNCHANGED <<currentTriggerId, lastValidTriggerId, debounceTimer,
                         timers>>
     /\ evicted => currentTriggerId' = currentTriggerId]_vars

\* C30 as amended: the same, except that the identifier is kept until a
\* resolution pass runs, be it one a later batch causes, one that was
\* already pending or a direct updateCurrentTrigger() call, or until
\* destroy() resets it.
C30_KeptUntilPassOrDestroy ==
  [][/\ lastOp' = "unobserve" =>
          /\ emitted' = NoEvents
          /\ layoutRead' = <<>>
          /\ UNCHANGED <<currentTriggerId, lastValidTriggerId, debounceTimer,
                         timers>>
     /\ (evicted /\ currentTriggerId' # currentTriggerId) =>
          \/ lastOp' \in {"pass", "call"}
          \/ lastOp' = "destroy" /\ currentTriggerId' = Null]_vars

\* The only visible element, which carries the current trigger, has just
\* been unobserved: the identifier is still current.
C30_Witness ==
  /\ lastOp = "unobserve"
  /\ evicted
  /\ ~destroyed
  /\ visibleElements = <<>>
  /\ currentTriggerId # Null
  /\ \E e \in QuerySelectorAll \ targets : attr[e] = currentTriggerId

====
